---- MODULE Spec2Model ----
(***************************************************************************)
(* Timetable extraction service: the upload gate, the extract controller,  *)
(* the file router (processFile), the image and PDF processors, and the    *)
(* validation / enrichment layer (schemas/timetable.js).                    *)
(*                                                                         *)
(* One POST /extract request is followed from the upload middleware to the *)
(* HTTP response.  Each action is the code that runs between two awaited    *)
(* external calls (sharp, tesseract, pdf-parse, the chat completion).       *)
(*                                                                         *)
(* Representation:                                                         *)
(*   - an optional value is a sequence of length 0 (absent / undefined) or  *)
(*     1 (present);                                                         *)
(*   - a string the code inspects (a time, a MIME type) is a sequence of     *)
(*     one-character strings / tokens, so that the regular expression,       *)
(*     split(':'), Number() and startsWith() are computed, not assumed;      *)
(*   - a text whose only inspected property is its length before and after  *)
(*     trim() is the record [lead, core, trail] of its run lengths;          *)
(*   - a fraction in 0..1 (a confidence) is kept in hundredths.              *)
(***************************************************************************)
EXTENDS Integers, Sequences, FiniteSets, TLC

\* ------------------------------------------------------------------ bounds

\* Longest timeblocks array an LLM reply carries in the model.
MaxBlocks == 2

\* Longest time string enumerated character by character for the validator.
MaxTimeLen == 5

\* ------------------------------------------------------------------ options

None == <<>>
Some(x) == <<x>>
IsSome(o) == Len(o) = 1
Get(o) == o[1]

\* ------------------------------------------------------------------ strings

Digits == {"0", "1", "2", "3", "4", "5", "6", "7", "8", "9"}

DigitValue(c) ==
  CASE c = "0" -> 0 [] c = "1" -> 1 [] c = "2" -> 2 [] c = "3" -> 3
    [] c = "4" -> 4 [] c = "5" -> 5 [] c = "6" -> 6 [] c = "7" -> 7
    [] c = "8" -> 8 [] c = "9" -> 9

\* Faulty variant of timeSchema: the minute may have one digit (\d{1,2}).
timeSchemaShortMinute(s) ==
  \E n \in {1, 2}, m \in {1, 2} :
    /\ Len(s) = n + 1 + m
    /\ s[n + 1] = ":"
    /\ \A k \in 1..Len(s) : k # n + 1 => s[k] \in Digits

\* timeSchema: z.string().regex(/^\d{1,2}:\d{2}$/)
timeSchema(s) ==
  /\ Len(s) \in {4, 5}
  /\ s[Len(s) - 2] = ":"
  /\ \A k \in 1..Len(s) : k # Len(s) - 2 => s[k] \in Digits

\* String.prototype.split(':'), on a sequence of characters.
RECURSIVE SplitFrom(_, _, _)
SplitFrom(s, k, cur) ==
  IF k > Len(s) THEN <<cur>>
  ELSE IF s[k] = ":" THEN <<cur>> \o SplitFrom(s, k + 1, <<>>)
  ELSE SplitFrom(s, k + 1, Append(cur, s[k]))

split(s) == SplitFrom(s, 1, <<>>)

\* Number(part) for a part made of decimal digits (the only parts a string
\* that passed timeSchema has); Number("") is 0.
RECURSIVE Number(_)
Number(part) ==
  IF Len(part) = 0 THEN 0
  ELSE 10 * Number(SubSeq(part, 1, Len(part) - 1)) + DigitValue(part[Len(part)])

\* const [hour, min] = time.split(':').map(Number)
HourOf(time) == Number(split(time)[1])
MinOf(time) == Number(split(time)[2])

\* ------------------------------------------------------------------ schema

Days == {"Monday", "Tuesday", "Wednesday", "Thursday", "Friday", "Saturday", "Sunday"}

SubjectTypes == {"academic", "break", "administrative", "other"}

\* Faulty variant of durationSchema: any number is accepted (no .min(1)).
durationSchemaNoMin(d) == TRUE

\* duration_minutes: z.number().int().min(1).optional()
durationSchema(d) == IsSome(d) => Get(d) >= 1

\* timeBlockSchema (the fields the model carries)
timeBlockSchema(b) ==
  /\ b.day \in Days
  /\ timeSchema(b.start_time)
  /\ timeSchema(b.end_time)
  /\ durationSchema(b.duration_minutes)
  /\ b.subject # ""
  /\ IsSome(b.subject_type) => Get(b.subject_type) \in SubjectTypes
  /\ IsSome(b.confidence) => Get(b.confidence) \in 0..100

\* metadataSchema: extraction_confidence in 0..1, default 0.5
metadataSchema(m) ==
  IsSome(m.extraction_confidence) => Get(m.extraction_confidence) \in 0..100

\* Faulty variant of timetableExtractionSchema: the array has no .min(1).
timetableExtractionSchemaNoMin(d) ==
  /\ IsSome(d)
  /\ IsSome(Get(d).metadata)
  /\ metadataSchema(Get(Get(d).metadata))
  /\ IsSome(Get(d).timeblocks)
  /\ \A i \in 1..Len(Get(Get(d).timeblocks)) : timeBlockSchema(Get(Get(d).timeblocks)[i])

\* timetableExtractionSchema: metadata plus z.array(timeBlockSchema).min(1);
\* d is the optional extracted data (absent when result.data is undefined).
timetableExtractionSchema(d) ==
  /\ IsSome(d)
  /\ IsSome(Get(d).metadata)
  /\ metadataSchema(Get(Get(d).metadata))
  /\ IsSome(Get(d).timeblocks)
  /\ Len(Get(Get(d).timeblocks)) >= 1
  /\ \A i \in 1..Len(Get(Get(d).timeblocks)) : timeBlockSchema(Get(Get(d).timeblocks)[i])

\* timeBlockSchema's output for a block that passed: .default('academic') for
\* subject_type and .default(1) for confidence are filled in.
timeBlockOutput(b) ==
  [b EXCEPT !.subject_type = IF IsSome(@) THEN @ ELSE Some("academic"),
            !.confidence   = IF IsSome(@) THEN @ ELSE Some(100)]

\* metadataSchema's output: .default(0.5) for extraction_confidence is filled in.
metadataOutput(m) ==
  [m EXCEPT !.extraction_confidence = IF IsSome(@) THEN @ ELSE Some(50)]

\* timetableExtractionSchema's output for data that passed: a new object, the
\* input is left as it was.
schemaOutput(d) ==
  [metadata   |-> Some(metadataOutput(Get(Get(d).metadata))),
   timeblocks |-> Some([i \in 1..Len(Get(Get(d).timeblocks)) |->
                          timeBlockOutput(Get(Get(d).timeblocks)[i])])]

\* validateTimetable: safeParse; only .success is read by the caller (.data,
\* the output with the defaults, is not), the issues are kept as the paths
\* that failed.
validateTimetable(d) ==
  LET ok == timetableExtractionSchema(d) IN
  [success |-> ok,
   data    |-> IF ok THEN Some(schemaOutput(d)) ELSE None,
   issues  |->
     IF ok THEN {}
     ELSE IF ~IsSome(d) THEN {"<root>"}
     ELSE (IF IsSome(Get(d).metadata) /\ metadataSchema(Get(Get(d).metadata))
             THEN {} ELSE {"metadata"})
          \cup
          (IF IsSome(Get(d).timeblocks)
              /\ Len(Get(Get(d).timeblocks)) >= 1
              /\ \A i \in 1..Len(Get(Get(d).timeblocks)) :
                    timeBlockSchema(Get(Get(d).timeblocks)[i])
             THEN {} ELSE {"timeblocks"})]

\* ------------------------------------------------------------------ business rules

startMinutes(b) == HourOf(b.start_time) * 60 + MinOf(b.start_time)
endMinutes(b) == HourOf(b.end_time) * 60 + MinOf(b.end_time)

\* Faulty variant of EndNotAfterStart: < in place of <=.
EndNotAfterStartStrict(b) == endMinutes(b) < startMinutes(b)

\* if (endMinutes <= startMinutes)
EndNotAfterStart(b) == endMinutes(b) <= startMinutes(b)

\* Faulty variant of OutsideSchoolHours: the end hour is not looked at.
OutsideSchoolHoursStartOnly(b) == HourOf(b.start_time) < 5

\* if (startHour < 5 || endHour > 23)
OutsideSchoolHours(b) == HourOf(b.start_time) < 5 \/ HourOf(b.end_time) > 23

\* The entries validateTimeRanges pushes for one block, in order.
BlockEntries(b) ==
  (IF EndNotAfterStart(b)
     THEN <<[block |-> b, error |-> "End time must be after start time",
             severity |-> None]>>
     ELSE <<>>)
  \o
  (IF OutsideSchoolHours(b)
     THEN <<[block |-> b, error |-> "Time outside reasonable school hours",
             severity |-> Some("warning")]>>
     ELSE <<>>)

\* validateTimeRanges(timeblocks): for (const block of timeblocks) { ... }
RECURSIVE validateTimeRanges(_)
validateTimeRanges(timeblocks) ==
  IF Len(timeblocks) = 0 THEN <<>>
  ELSE BlockEntries(Head(timeblocks)) \o validateTimeRanges(Tail(timeblocks))

\* Faulty variant of computedDuration: the minutes are dropped.
computedDurationHoursOnly(b) == (HourOf(b.end_time) - HourOf(b.start_time)) * 60

\* const duration = (endHour * 60 + endMin) - (startHour * 60 + startMin)
computedDuration(b) == endMinutes(b) - startMinutes(b)

\* Faulty variant of enrichBlock: the duration is computed for every block.
enrichBlockAlways(b) == [b EXCEPT !.duration_minutes = Some(computedDuration(b))]

\* The body of the map callback in enrichTimeBlocks:
\* if (!block.duration_minutes) block.duration_minutes = end - start
enrichBlock(b) ==
  IF ~IsSome(b.duration_minutes) \/ b.duration_minutes = Some(0)
    THEN [b EXCEPT !.duration_minutes = Some(computedDuration(b))]
    ELSE b

\* enrichTimeBlocks(timeblocks)
enrichTimeBlocks(timeblocks) ==
  [i \in 1..Len(timeblocks) |-> enrichBlock(timeblocks[i])]

\* ------------------------------------------------------------------ validateExtraction

\* Faulty variant of validateExtraction: the blocks are enriched before the
\* time-range check.
validateExtractionEnrichFirst(d) ==
  LET schemaValidation == validateTimetable(d) IN
  IF ~schemaValidation.success
    THEN [isValid      |-> FALSE,
          errors       |-> [i \in 1..Cardinality(schemaValidation.issues) |->
                              [block |-> "", message |-> "schema"]],
          warnings     |-> None,
          enrichedData |-> None,
          dataAfter    |-> d,
          ran          |-> <<"validateTimetable">>]
    ELSE
      LET timeblocks      == enrichTimeBlocks(Get(Get(d).timeblocks))
          timeRangeErrors == validateTimeRanges(timeblocks)
          warnings        == SelectSeq(timeRangeErrors,
                                LAMBDA e : e.severity = Some("warning"))
          errors          == SelectSeq(timeRangeErrors,
                                LAMBDA e : ~IsSome(e.severity) \/ e.severity = Some("error"))
      IN IF Len(errors) > 0
           THEN [isValid      |-> FALSE,
                 errors       |-> [i \in 1..Len(errors) |->
                                     [block |-> errors[i].block.subject,
                                      message |-> errors[i].error]],
                 warnings     |-> Some(warnings),
                 enrichedData |-> None,
                 dataAfter    |-> Some([Get(d) EXCEPT !.timeblocks = Some(timeblocks)]),
                 ran          |-> <<"validateTimetable", "enrichTimeBlocks",
                                    "validateTimeRanges">>]
           ELSE [isValid      |-> TRUE,
                 errors       |-> <<>>,
                 warnings     |-> Some([i \in 1..Len(warnings) |->
                                     [block |-> warnings[i].block.subject,
                                      message |-> warnings[i].error]]),
                 enrichedData |-> Some([metadata   |-> Get(d).metadata,
                                        timeblocks |-> Some(timeblocks)]),
                 dataAfter    |-> Some([Get(d) EXCEPT !.timeblocks = Some(timeblocks)]),
                 ran          |-> <<"validateTimetable", "enrichTimeBlocks",
                                    "validateTimeRanges">>]

\* validateExtraction(data): schema, then time ranges, then enrichment.
\* ran lists the validator functions that were called, in order; dataAfter is
\* the object data refers to when the call returns (enrichTimeBlocks writes
\* duration_minutes into the blocks of data.timeblocks themselves).
validateExtraction(d) ==
  LET schemaValidation == validateTimetable(d) IN
  IF ~schemaValidation.success
    THEN [isValid      |-> FALSE,
          errors       |-> [i \in 1..Cardinality(schemaValidation.issues) |->
                              [block |-> "", message |-> "schema"]],
          warnings     |-> None,
          enrichedData |-> None,
          dataAfter    |-> d,
          ran          |-> <<"validateTimetable">>]
    ELSE
      LET timeblocks      == Get(Get(d).timeblocks)
          timeRangeErrors == validateTimeRanges(timeblocks)
          warnings        == SelectSeq(timeRangeErrors,
                                LAMBDA e : e.severity = Some("warning"))
          errors          == SelectSeq(timeRangeErrors,
                                LAMBDA e : ~IsSome(e.severity) \/ e.severity = Some("error"))
      IN IF Len(errors) > 0
           THEN [isValid      |-> FALSE,
                 errors       |-> [i \in 1..Len(errors) |->
                                     [block |-> errors[i].block.subject,
                                      message |-> errors[i].error]],
                 warnings     |-> Some(warnings),
                 enrichedData |-> None,
                 dataAfter    |-> d,
                 ran          |-> <<"validateTimetable", "validateTimeRanges">>]
           ELSE [isValid      |-> TRUE,
                 errors       |-> <<>>,
                 warnings     |-> Some([i \in 1..Len(warnings) |->
                                     [block |-> warnings[i].block.subject,
                                      message |-> warnings[i].error]]),
                 enrichedData |-> Some([metadata   |-> Get(d).metadata,
                                        timeblocks |-> Some(enrichTimeBlocks(timeblocks))]),
                 dataAfter    |-> Some([Get(d) EXCEPT
                                          !.timeblocks = Some(enrichTimeBlocks(timeblocks))]),
                 ran          |-> <<"validateTimetable", "validateTimeRanges",
                                    "enrichTimeBlocks">>]

\* ------------------------------------------------------------------ MIME types

image_png == <<"image", "/", "png">>
image_jpeg == <<"image", "/", "jpeg">>
image_gif == <<"image", "/", "gif">>
application_pdf == <<"application", "/", "pdf">>
application_json == <<"application", "/", "json">>
text_plain == <<"text", "/", "plain">>

\* String.prototype.startsWith, on token sequences.
startsWith(s, prefix) ==
  /\ Len(s) >= Len(prefix)
  /\ SubSeq(s, 1, Len(prefix)) = prefix

\* isFileTypeSupported: ['image/png', 'image/jpeg', 'application/pdf'].includes(mimetype)
isFileTypeSupported(mimetype) == mimetype \in {image_png, image_jpeg, application_pdf}

\* Faulty variant of route: everything but a PDF goes to the image processor.
routeImageForAll(mimetype) ==
  IF mimetype = application_pdf THEN "pdf" ELSE "image"

\* processFile's routing: mimetype.startsWith('image/'), mimetype === 'application/pdf', else.
route(mimetype) ==
  IF startsWith(mimetype, <<"image", "/">>) THEN "image"
  ELSE IF mimetype = application_pdf THEN "pdf"
  ELSE "unsupported"

\* ------------------------------------------------------------------ texts

\* text.trim().length and text.length of a text given by its run lengths.
trimLength(t) == t.core
length(t) == t.lead + t.core + t.trail

\* Minimal trimmed length of an extracted text (PDF: more than; OCR: at least).
MinTextLength == 50

\* Faulty variant of pdfTextSufficient: the text is not trimmed.
pdfTextSufficientNoTrim(text) == IsSome(text) /\ length(Get(text)) > MinTextLength

\* processPDF: pdfData.text && pdfData.text.trim().length > 50
pdfTextSufficient(text) ==
  /\ IsSome(text)
  /\ length(Get(text)) > 0
  /\ trimLength(Get(text)) > MinTextLength

\* extractWithOCR: !ocrResult.text || ocrResult.text.trim().length < 50
ocrTextInsufficient(text) ==
  \/ ~IsSome(text)
  \/ length(Get(text)) = 0
  \/ trimLength(Get(text)) < MinTextLength

\* ------------------------------------------------------------------ inputs

\* Rows of a timetable as a model may read them: a valid morning lesson, an
\* early start, an end after 23:00, end = start, end < start (and early),
\* an end hour of 24, and a time that is not H:MM.
TimeCases ==
  { [start_time |-> <<"0", "9", ":", "0", "0">>, end_time |-> <<"9", ":", "3", "0">>,
     subject |-> "Maths"],
    [start_time |-> <<"4", ":", "3", "0">>, end_time |-> <<"5", ":", "0", "0">>,
     subject |-> "Registration"],
    [start_time |-> <<"2", "2", ":", "0", "0">>, end_time |-> <<"2", "3", ":", "3", "0">>,
     subject |-> "Evening club"],
    [start_time |-> <<"1", "0", ":", "3", "0">>, end_time |-> <<"1", "0", ":", "3", "0">>,
     subject |-> "Break"],
    [start_time |-> <<"4", ":", "3", "0">>, end_time |-> <<"4", ":", "0", "0">>,
     subject |-> "Assembly"],
    [start_time |-> <<"2", "3", ":", "0", "0">>, end_time |-> <<"2", "4", ":", "0", "0">>,
     subject |-> "Night study"],
    [start_time |-> <<"9", ":", "5">>, end_time |-> <<"9", ":", "3", "0">>,
     subject |-> "Lunch"] }

\* duration_minutes as the model may give it: absent, or a number of minutes.
Durations == {None, Some(45)}

Blocks ==
  { [day |-> "Monday", start_time |-> c.start_time, end_time |-> c.end_time,
     duration_minutes |-> d, subject |-> c.subject,
     subject_type |-> None, confidence |-> Some(90)] :
      c \in TimeCases, d \in Durations }

BlockLists == UNION { [1..n -> Blocks] : n \in 0..MaxBlocks }

Metadatas ==
  { [teacher_name |-> Some("Ms Hill"), extraction_confidence |-> Some(90)],
    [teacher_name |-> None, extraction_confidence |-> None] }

\* The objects JSON.parse may yield from a model reply.
Replies ==
  { [metadata |-> Some(m), timeblocks |-> Some(l)] : m \in Metadatas, l \in BlockLists }
  \cup
  { [metadata |-> None, timeblocks |-> Some(l)] : l \in [1..1 -> Blocks] }
  \cup
  { [metadata |-> Some(m), timeblocks |-> None] : m \in Metadatas }

\* Texts pdf-parse or tesseract may yield, by run lengths.
Texts ==
  { [lead |-> 0, core |-> 0, trail |-> 0],
    [lead |-> 2, core |-> 0, trail |-> 1],
    [lead |-> 0, core |-> MinTextLength - 1, trail |-> 0],
    [lead |-> 0, core |-> MinTextLength, trail |-> 0],
    [lead |-> 1, core |-> MinTextLength, trail |-> 1],
    [lead |-> 0, core |-> MinTextLength + 1, trail |-> 0] }

\* config.maxFileSize default: 10 * 1024 * 1024
DefaultMaxFileSize == 10485760

\* config.ocrConfidenceThreshold default 0.6, in hundredths
DefaultOcrConfidenceThreshold == 60

\* config.allowedFileTypes default, and an ALLOWED_FILE_TYPES that adds types
AllowedFileTypeLists ==
  { {image_png, image_jpeg, application_pdf},
    {image_png, image_jpeg, application_pdf, image_gif, application_json, text_plain} }

\* config (config/index.js), read once from the environment
Configs ==
  [openaiApiKey           : BOOLEAN,
   enableOCR              : BOOLEAN,
   enableLLMVision        : BOOLEAN,
   allowedFileTypes       : AllowedFileTypeLists,
   maxFileSize            : {DefaultMaxFileSize},
   ocrConfidenceThreshold : {DefaultOcrConfidenceThreshold}]

\* Uploaded files: MIME type and size in bytes.
Files ==
  [mimetype : {image_png, image_gif, application_pdf, application_json, text_plain},
   size     : {1024, DefaultMaxFileSize + 1}]

\* Confidences tesseract may report, in hundredths (confidence / 100).
OcrConfidences == {DefaultOcrConfidenceThreshold - 1, DefaultOcrConfidenceThreshold}

\* ------------------------------------------------------------------ state

VARIABLES
  config,          \* the service configuration
  pc,              \* where the request is: idle, controller, an awaited call, done
  upload,          \* the file part the client sent (absent: none)
  file,            \* req.file as the controller sees it
  processedImage,  \* preprocessImage's result: "", "processed" or "original"
  worker,          \* the tesseract worker: "none", "alive", "terminated"
  ocrResult,       \* what worker.recognize gave: [text, confidence], or absent
  ocrThrew,        \* worker.recognize threw and the error is pending
  pdfText,         \* pdfData.text, once pdf-parse returned
  calls,           \* how often each processor / external call was invoked
  extracted,       \* the processor's result, once it returned
  validation,      \* validateExtraction's result, once it ran
  response,        \* the HTTP response, once sent
  raised,          \* the error object that ended the request, as it was thrown
  llmReply,        \* responseText of the completion that has just returned
  other,           \* the variables above of a second request, while it is suspended
  current          \* which request the variables above belong to: 1 or 2 (0: there is one only)

vars == <<config, pc, upload, file, processedImage, worker, ocrResult, ocrThrew,
          pdfText, calls, extracted, validation, response, raised, llmReply,
          other, current>>

NoCalls ==
  [processImage |-> 0, processPDF |-> 0, preprocessImage |-> 0,
   extractWithVision |-> 0, extractWithOCR |-> 0, createWorker |-> 0,
   recognize |-> 0, terminate |-> 0, extractFromText |-> 0, completions |-> 0,
   pdfParse |-> 0]

Called(name) == calls' = [calls EXCEPT ![name] = @ + 1]
Called2(n1, n2) == calls' = [calls EXCEPT ![n1] = @ + 1, ![n2] = @ + 1]
\* A request before its upload is read.
InitialContext ==
  [pc |-> "idle", upload |-> None, file |-> None, processedImage |-> "",
   worker |-> "none", ocrResult |-> None, ocrThrew |-> FALSE, pdfText |-> None,
   calls |-> NoCalls, extracted |-> None, validation |-> None, response |-> None,
   raised |-> None, llmReply |-> None]

\* The running request has not read its upload yet.
FreshRequest ==
  /\ pc = InitialContext.pc
  /\ upload = InitialContext.upload
  /\ file = InitialContext.file
  /\ processedImage = InitialContext.processedImage
  /\ worker = InitialContext.worker
  /\ ocrResult = InitialContext.ocrResult
  /\ ocrThrew = InitialContext.ocrThrew
  /\ pdfText = InitialContext.pdfText
  /\ calls = InitialContext.calls
  /\ extracted = InitialContext.extracted
  /\ validation = InitialContext.validation
  /\ response = InitialContext.response
  /\ raised = InitialContext.raised
  /\ llmReply = InitialContext.llmReply

Init ==
  /\ config \in Configs
  /\ FreshRequest
  /\ other = InitialContext
  /\ current = 0

\* Faulty variant of isConfigured: the client is taken to exist.
isConfiguredAlways == TRUE

\* llmService.isConfigured(): openai !== null
isConfigured == config.openaiApiKey

\* ------------------------------------------------------------------ responses

\* Faulty variant of statusCode: the UNSUPPORTED_FILE_TYPE test is missing.
statusCodeWithout415(code) ==
  IF code = "INVALID_REQUEST" THEN 400
  ELSE IF code = "FILE_TOO_LARGE" THEN 413
  ELSE IF code = "VALIDATION_FAILED" THEN 422
  ELSE 500

\* extractTimetable's catch: "Determine status code" (the last test that
\* matches wins; INVALID_REQUEST is the code that includes 'INVALID')
statusCode(code) ==
  IF code = "INVALID_REQUEST" THEN 400
  ELSE IF code = "FILE_TOO_LARGE" THEN 413
  ELSE IF code = "VALIDATION_FAILED" THEN 422
  ELSE IF code = "UNSUPPORTED_FILE_TYPE" THEN 415
  ELSE 500

\* Faulty variant of errorResponse: the caller gets a generic code and message.
errorResponseGeneric(error) ==
  [status   |-> statusCode(error.code),
   success  |-> FALSE,
   code     |-> "INTERNAL_ERROR",
   message  |-> "An unexpected error occurred",
   details  |-> error.details,
   data     |-> None,
   warnings |-> None]

\* extractTimetable's catch block: the error response
errorResponse(error) ==
  [status   |-> statusCode(error.code),
   success  |-> FALSE,
   code     |-> IF error.code = "" THEN "INTERNAL_ERROR" ELSE error.code,
   message  |-> error.message,
   details  |-> error.details,
   data     |-> None,
   warnings |-> None]

\* handleMulterError / the controller's own early return: a response written directly
directResponse(status, code, message) ==
  [status |-> status, success |-> FALSE, code |-> code, message |-> message,
   details |-> "", data |-> None, warnings |-> None]

\* Faulty variant of processFileCatch: every error is wrapped.
processFileCatchAlwaysWraps(error) ==
  [code |-> "PROCESSING_FAILED", message |-> error.message, details |-> "stack"]

\* processFile's catch: an error with a code is rethrown as it is
processFileCatch(error) ==
  IF error.code # "" THEN error
  ELSE [code |-> "PROCESSING_FAILED", message |-> error.message, details |-> "stack"]

\* processImage's catch: every error becomes IMAGE_PROCESSING_FAILED
processImageCatch(message) ==
  [code |-> "IMAGE_PROCESSING_FAILED", message |-> message,
   details |-> "Failed to extract timetable from image"]

\* processPDF's catch: every error becomes PDF_PROCESSING_FAILED
processPDFCatch(message) ==
  [code |-> "PDF_PROCESSING_FAILED", message |-> message,
   details |-> "Failed to extract text from PDF"]

\* What processFile returns after validateExtraction: the VALIDATION_FAILED
\* object (returned, not thrown; it has no data and no metadata key) or the
\* success object.
processFileReturn(result, v) ==
  IF ~v.isValid
    THEN [success |-> FALSE, data |-> None, warnings |-> None,
          error |-> "VALIDATION_FAILED"]
    ELSE [success |-> TRUE, data |-> v.enrichedData, warnings |-> v.warnings,
          error |-> ""]

\* extractTimetable after processFile returned r: the 200 response is built
\* from r.data and r.metadata, whatever r.success is.
controllerResponse(r) ==
  [status |-> 200, success |-> TRUE, code |-> "", message |-> "", details |-> "",
   data |-> r.data, warnings |-> r.warnings]

\* Faulty variant of ocrConfidenceTooLow: the 0-100 confidence tesseract reports
\* is compared with the 0-1 threshold.
ocrConfidenceTooLowUnscaled(confidence) ==
  confidence * 100 < config.ocrConfidenceThreshold

\* extractWithOCR: ocrResult.confidence < config.ocrConfidenceThreshold
ocrConfidenceTooLow(confidence) == confidence < config.ocrConfidenceThreshold

\* ------------------------------------------------------------------ middleware errors

\* An error as the error middleware sees it: whether it is a MulterError, its
\* code and statusCode properties (absent: "" and None) and its message.
MulterError(code) ==
  [multer |-> TRUE, code |-> code, statusCode |-> None, message |-> code]

\* Faulty variant of fileFilter: every MIME type is accepted.
fileFilterAcceptsAll(f) == None

\* fileFilter: the error for a MIME type outside config.allowedFileTypes, or none.
fileFilter(f) ==
  IF f.mimetype \notin config.allowedFileTypes
    THEN Some([multer |-> FALSE, code |-> "UNSUPPORTED_FILE_TYPE", statusCode |-> None,
               message |-> "File type is not supported"])
    ELSE None

\* What upload.single('file') raises besides the file filter's error and the
\* size limit: a file part under another field name, a second file part
\* (limits.files), and a multipart body that ends early (a plain Error).
UploadErrors ==
  { MulterError("LIMIT_UNEXPECTED_FILE"),
    MulterError("LIMIT_FILE_COUNT"),
    [multer |-> FALSE, code |-> "", statusCode |-> None,
     message |-> "Unexpected end of form"] }

\* What express.json raises for a request body that is not valid JSON.
BodyParserError ==
  [multer |-> FALSE, code |-> "", statusCode |-> Some(400),
   message |-> "Unexpected token in JSON"]

\* handleMulterError: the response it writes, or None when it calls next(err).
handleMulterError(err) ==
  IF err.multer
    THEN IF err.code = "LIMIT_FILE_SIZE"
           THEN Some(directResponse(413, "FILE_TOO_LARGE", "File size exceeds maximum"))
         ELSE IF err.code = "LIMIT_UNEXPECTED_FILE"
           THEN Some(directResponse(400, "INVALID_REQUEST", "Unexpected file field"))
         ELSE Some(directResponse(400, "UPLOAD_ERROR", err.message))
  ELSE IF err.code = "UNSUPPORTED_FILE_TYPE"
    THEN Some(directResponse(415, err.code, err.message))
  ELSE None

\* errorHandler: err.statusCode || 500 and err.code || 'INTERNAL_SERVER_ERROR'.
errorHandler(err) ==
  directResponse(IF IsSome(err.statusCode) THEN Get(err.statusCode) ELSE 500,
                 IF err.code = "" THEN "INTERNAL_SERVER_ERROR" ELSE err.code,
                 err.message)

\* The response to an error raised in the middleware chain of POST /extract.
middlewareResponse(err) ==
  IF IsSome(handleMulterError(err)) THEN Get(handleMulterError(err))
  ELSE errorHandler(err)

\* The code and message of an error object thrown inside processFile.
thrown(error) ==
  [multer |-> FALSE, code |-> error.code, statusCode |-> None,
   message |-> error.message]

\* ------------------------------------------------------------------ LLM replies

\* The text of a completion, as a sequence of tokens: an opening brace, a
\* closing brace, the members of a JSON object (standing for the object v they
\* spell), or a run of prose without braces.
LBrace == [t |-> "{", v |-> None]
RBrace == [t |-> "}", v |-> None]
Prose == [t |-> "prose", v |-> None]
Members(object) == [t |-> "members", v |-> Some(object)]

\* JSON.parse(text): the object when the whole text is one JSON object, else
\* it throws (ok = FALSE).
JSONparse(text) ==
  IF /\ Len(text) = 3
     /\ text[1] = LBrace
     /\ text[2].t = "members"
     /\ text[3] = RBrace
    THEN [ok |-> TRUE, value |-> text[2].v]
    ELSE [ok |-> FALSE, value |-> None]

\* responseText.match(/\{[\s\S]*\}/): the span from the first opening brace to
\* the last closing brace (the quantifier is greedy), or no match.
matchBraces(text) ==
  LET opens  == { i \in 1..Len(text) : text[i] = LBrace }
      closes == { j \in 1..Len(text) : text[j] = RBrace }
      first  == CHOOSE i \in opens : \A k \in opens : i <= k
      last   == CHOOSE j \in closes : \A k \in closes : k <= j
  IN IF opens # {} /\ closes # {} /\ first < last
       THEN Some(SubSeq(text, first, last))
       ELSE None

\* The second client's reply handling: match, throw when there is no match,
\* JSON.parse(jsonMatch[0]).
extractJsonMatch(text) ==
  IF IsSome(matchBraces(text))
    THEN JSONparse(Get(matchBraces(text)))
    ELSE [ok |-> FALSE, value |-> None]

\* Faulty variant of parseResponseText: the object is looked for inside the reply.
parseResponseTextLenient(text) == extractJsonMatch(text)

\* The configured client's reply handling: JSON.parse(responseText).
parseResponseText(text) == JSONparse(text)

\* The object used in replies that are not a bare JSON object.
WrappedReply ==
  [metadata |-> Some([teacher_name |-> None, extraction_confidence |-> None]),
   timeblocks |-> None]

\* Completion texts: a bare JSON object; an object wrapped in prose; two
\* objects with prose between them; prose alone; braces around something that
\* is not JSON; the empty text.
ReplyTexts ==
  { <<LBrace, Members(r), RBrace>> : r \in Replies }
  \cup
  { <<Prose, LBrace, Members(WrappedReply), RBrace, Prose>>,
    <<LBrace, Members(WrappedReply), RBrace, Prose, LBrace, Members(WrappedReply), RBrace>>,
    <<Prose>>,
    <<LBrace, Prose, RBrace>>,
    <<>> }

\* The inputs of the runs with two requests: a PNG, a PDF or a GIF of 1024
\* bytes (or no file part); as completion a valid one-block timetable, a
\* one-block timetable whose block ends when it starts, or prose; an OCR
\* text and a PDF text of 51 characters (or no PDF text).
ConcBlock(case) ==
  [day |-> "Monday", start_time |-> case.start_time, end_time |-> case.end_time,
   duration_minutes |-> None, subject |-> case.subject,
   subject_type |-> None, confidence |-> Some(90)]

ConcReplyTexts ==
  { <<LBrace,
      Members([metadata |-> Some([teacher_name |-> None, extraction_confidence |-> None]),
               timeblocks |-> Some(<<ConcBlock(case)>>)]),
      RBrace>> : case \in { c \in TimeCases : c.subject \in {"Maths", "Break"} } }
  \cup {<<Prose>>}

\* The completions a run may get: any of ReplyTexts when a single request
\* runs (current = 0), those of ConcReplyTexts when two requests run.
OfferedReplyTexts == IF current = 0 THEN ReplyTexts ELSE ConcReplyTexts

\* The request ends in an error response.
Fail(error) ==
  /\ response' = Some(errorResponse(processFileCatch(error)))
  /\ raised' = Some(thrown(error))
  /\ pc' = "done"

\* A processor returned result = [data, extractionMethod]: processFile validates
\* and returns, the controller answers.
Finish(result) ==
  LET v == validateExtraction(result.data) IN
    /\ extracted' = Some(result)
    /\ validation' = Some(v)
    /\ response' = Some(controllerResponse(processFileReturn(result, v)))
    /\ pc' = "done"
    /\ UNCHANGED raised

\* The error middleware answers err: the request never reaches the controller.
Reject(err) ==
  /\ response' = Some(middlewareResponse(err))
  /\ raised' = Some(err)
  /\ pc' = "done"
  /\ UNCHANGED file

\* ------------------------------------------------------------------ actions

\* upload.single('file') with fileFilter and limits, then handleMulterError.
Upload(f) ==
  /\ pc = "idle"
  /\ upload' = f
  /\ IF ~IsSome(f)
       THEN /\ pc' = "controller"
            /\ UNCHANGED <<file, response, raised>>
       ELSE IF IsSome(fileFilter(Get(f)))
         THEN Reject(Get(fileFilter(Get(f))))
       ELSE IF Get(f).size > config.maxFileSize
         THEN Reject(MulterError("LIMIT_FILE_SIZE"))
       ELSE /\ file' = f
            /\ pc' = "controller"
            /\ UNCHANGED <<response, raised>>
  /\ UNCHANGED <<config, other, current, processedImage, worker, ocrResult, ocrThrew, pdfText,
                 calls, extracted, validation, llmReply>>

\* upload.single('file') raised another error: handleMulterError answers it
\* or passes it to errorHandler.
UploadThrows(err) ==
  /\ pc = "idle"
  /\ Reject(err)
  /\ UNCHANGED <<config, other, current, upload, processedImage, worker, ocrResult, ocrThrew, pdfText,
                 calls, extracted, validation, llmReply>>

\* express.json raised on the request body: errorHandler answers.
BodyParserThrows ==
  /\ pc = "idle"
  /\ Reject(BodyParserError)
  /\ UNCHANGED <<config, other, current, upload, processedImage, worker, ocrResult, ocrThrew, pdfText,
                 calls, extracted, validation, llmReply>>

\* Faulty variant of ExtractTimetable: the missing-file check is absent, so
\* reading req.file.buffer throws and the catch block answers.
ExtractTimetableNoFileCheck ==
  /\ pc = "controller"
  /\ IF ~IsSome(file)
       THEN /\ response' = Some(errorResponse([code |-> "",
                                               message |-> "Cannot read properties of undefined",
                                               details |-> ""]))
            /\ pc' = "done"
            /\ UNCHANGED <<calls, raised>>
       ELSE IF route(Get(file).mimetype) = "image"
         THEN /\ Called2("processImage", "preprocessImage")
              /\ pc' = "preprocess"
              /\ UNCHANGED <<response, raised>>
       ELSE IF route(Get(file).mimetype) = "pdf"
         THEN /\ Called2("processPDF", "pdfParse")
              /\ pc' = "pdfparse"
              /\ UNCHANGED <<response, raised>>
       ELSE /\ Fail([code |-> "UNSUPPORTED_FILE_TYPE",
                     message |-> "File type is not supported",
                     details |-> "Supported types: image/png, image/jpeg, application/pdf"])
            /\ UNCHANGED calls
  /\ UNCHANGED <<config, other, current, upload, file, processedImage, worker, ocrResult, ocrThrew,
                 pdfText, extracted, validation, llmReply>>

\* extractTimetable up to the first awaited external call: the missing-file
\* answer, or processFile's routing into processImage / processPDF.
ExtractTimetable ==
  /\ pc = "controller"
  /\ IF ~IsSome(file)
       THEN /\ response' = Some(directResponse(400, "NO_FILE_PROVIDED",
                                               "No file was uploaded"))
            /\ pc' = "done"
            /\ UNCHANGED <<calls, raised>>
       ELSE IF route(Get(file).mimetype) = "image"
         THEN /\ Called2("processImage", "preprocessImage")
              /\ pc' = "preprocess"
              /\ UNCHANGED <<response, raised>>
       ELSE IF route(Get(file).mimetype) = "pdf"
         THEN /\ Called2("processPDF", "pdfParse")
              /\ pc' = "pdfparse"
              /\ UNCHANGED <<response, raised>>
       ELSE /\ Fail([code |-> "UNSUPPORTED_FILE_TYPE",
                     message |-> "File type is not supported",
                     details |-> "Supported types: image/png, image/jpeg, application/pdf"])
            /\ UNCHANGED calls
  /\ UNCHANGED <<config, other, current, upload, file, processedImage, worker, ocrResult, ocrThrew,
                 pdfText, extracted, validation, llmReply>>

\* Faulty variant of PreprocessReturns: preprocessImage has no catch, an error
\* of sharp fails the request.
PreprocessReturnsOrFails(ok) ==
  /\ pc = "preprocess"
  /\ processedImage' = IF ok THEN "processed" ELSE ""
  /\ IF ~ok
       THEN /\ Fail(processImageCatch("preprocess error"))
            /\ UNCHANGED calls
       ELSE IF config.enableLLMVision /\ isConfigured
         THEN /\ Called2("extractWithVision", "completions")
              /\ pc' = "vision"
              /\ UNCHANGED <<response, raised>>
       ELSE IF config.enableOCR
         THEN /\ Called2("extractWithOCR", "createWorker")
              /\ pc' = "ocr_create"
              /\ UNCHANGED <<response, raised>>
       ELSE /\ Fail(processImageCatch("No extraction method available"))
            /\ UNCHANGED calls
  /\ UNCHANGED <<config, other, current, upload, file, worker, ocrResult, ocrThrew, pdfText,
                 extracted, validation, llmReply>>

\* sharp returned (ok) or threw: preprocessImage yields the processed or the
\* original buffer, and processImage picks vision, OCR or neither.
PreprocessReturns(ok) ==
  /\ pc = "preprocess"
  /\ processedImage' = IF ok THEN "processed" ELSE "original"
  /\ IF config.enableLLMVision /\ isConfigured
       THEN /\ Called2("extractWithVision", "completions")
            /\ pc' = "vision"
            /\ UNCHANGED <<response, raised>>
       ELSE IF config.enableOCR
         THEN /\ Called2("extractWithOCR", "createWorker")
              /\ pc' = "ocr_create"
              /\ UNCHANGED <<response, raised>>
       ELSE /\ Fail(processImageCatch("No extraction method available"))
            /\ UNCHANGED calls
  /\ UNCHANGED <<config, other, current, upload, file, worker, ocrResult, ocrThrew, pdfText,
                 extracted, validation, llmReply>>

\* processImage's catch (visionError): fall back to OCR when it is enabled,
\* else the vision error fails the request.
VisionCatch ==
  IF config.enableOCR
    THEN /\ Called2("extractWithOCR", "createWorker")
         /\ pc' = "ocr_create"
         /\ UNCHANGED <<response, raised, extracted, validation>>
    ELSE /\ Fail(processImageCatch("vision error"))
         /\ UNCHANGED <<calls, extracted, validation>>

\* The vision completion returned a reply: extractWithVision parses it and
\* returns the object, or the parse error goes the way of any vision error.
VisionReturns ==
  /\ pc = "vision"
  /\ \E text \in OfferedReplyTexts :
       /\ llmReply' = Some(text)
       /\ IF parseResponseText(text).ok
            THEN /\ Finish([data |-> parseResponseText(text).value,
                            extractionMethod |-> "claude-vision"])
                 /\ UNCHANGED calls
            ELSE VisionCatch
  /\ UNCHANGED <<config, other, current, upload, file, processedImage, worker, ocrResult, ocrThrew,
                 pdfText>>

\* Faulty variant of VisionThrows: the vision error always fails the request.
VisionThrowsNoFallback ==
  /\ pc = "vision"
  /\ response' = Some(errorResponse(processImageCatch("vision error")))
  /\ raised' = Some(thrown(processImageCatch("vision error")))
  /\ pc' = "done"
  /\ UNCHANGED <<config, other, current, upload, file, processedImage, worker, ocrResult, ocrThrew,
                 pdfText, calls, extracted, validation, llmReply>>

\* Faulty variant of VisionThrows: the vision request is issued again.
VisionThrowsRetry ==
  /\ pc = "vision"
  /\ Called2("extractWithVision", "completions")
  /\ UNCHANGED <<config, other, current, pc, upload, file, processedImage, worker, ocrResult, ocrThrew,
                 pdfText, extracted, validation, response, raised, llmReply>>

\* The vision completion request itself threw: fall back to OCR when enabled,
\* else the vision error fails the request.
VisionThrows ==
  /\ pc = "vision"
  /\ VisionCatch
  /\ UNCHANGED <<config, other, current, upload, file, processedImage, worker, ocrResult, ocrThrew,
                 pdfText, llmReply>>

\* performOCR: createWorker('eng') returned a worker, or threw (outside the try).
CreateWorkerReturns(ok) ==
  /\ pc = "ocr_create"
  /\ llmReply' = None
  /\ IF ok
       THEN /\ worker' = "alive"
            /\ Called("recognize")
            /\ pc' = "ocr_recognize"
            /\ UNCHANGED <<response, raised>>
       ELSE /\ Fail(processImageCatch("createWorker error"))
            /\ UNCHANGED <<worker, calls>>
  /\ UNCHANGED <<config, other, current, upload, file, processedImage, ocrResult, ocrThrew, pdfText,
                 extracted, validation>>

\* performOCR: worker.recognize returned text and confidence; the finally
\* block calls worker.terminate().
RecognizeReturns(text, confidence) ==
  /\ pc = "ocr_recognize"
  /\ ocrResult' = Some([text |-> text, confidence |-> confidence])
  /\ Called("terminate")
  /\ pc' = "ocr_terminate"
  /\ UNCHANGED <<config, other, current, upload, file, processedImage, worker, ocrThrew, pdfText,
                 extracted, validation, response, raised, llmReply>>

\* Faulty variant of RecognizeThrows: there is no finally block, the error
\* leaves performOCR at once.
RecognizeThrowsNoFinally ==
  /\ pc = "ocr_recognize"
  /\ ocrThrew' = TRUE
  /\ Fail(processImageCatch("recognize error"))
  /\ UNCHANGED <<config, other, current, upload, file, processedImage, worker, ocrResult, pdfText,
                 calls, extracted, validation, llmReply>>

\* performOCR: worker.recognize threw; the finally block calls
\* worker.terminate() and the error is rethrown after it.
RecognizeThrows ==
  /\ pc = "ocr_recognize"
  /\ ocrThrew' = TRUE
  /\ Called("terminate")
  /\ pc' = "ocr_terminate"
  /\ UNCHANGED <<config, other, current, upload, file, processedImage, worker, ocrResult, pdfText,
                 extracted, validation, response, raised, llmReply>>

\* performOCR's finally: worker.terminate() returned.  Then the pending error
\* is rethrown, or extractWithOCR checks confidence and text and goes on to
\* the text completion (or returns the raw OCR result without data).
TerminateReturns ==
  /\ pc = "ocr_terminate"
  /\ worker' = "terminated"
  /\ IF ocrThrew
       THEN /\ Fail(processImageCatch("recognize error"))
            /\ UNCHANGED <<calls, extracted, validation>>
       ELSE IF ocrConfidenceTooLow(Get(ocrResult).confidence)
         THEN /\ Fail(processImageCatch("OCR confidence too low"))
              /\ UNCHANGED <<calls, extracted, validation>>
       ELSE IF ocrTextInsufficient(Get(ocrResult).text)
         THEN /\ Fail(processImageCatch("Insufficient text extracted from image"))
              /\ UNCHANGED <<calls, extracted, validation>>
       ELSE IF isConfigured
         THEN /\ Called2("extractFromText", "completions")
              /\ pc' = "ocr_text"
              /\ UNCHANGED <<extracted, validation, response, raised>>
       ELSE /\ Finish([data |-> None, extractionMethod |-> ""])
            /\ UNCHANGED calls
  /\ UNCHANGED <<config, other, current, upload, file, processedImage, ocrResult, ocrThrew, pdfText,
                 llmReply>>

\* performOCR's finally: worker.terminate() threw; the error replaces any
\* pending one and leaves performOCR.
TerminateThrows ==
  /\ pc = "ocr_terminate"
  /\ Fail(processImageCatch("terminate error"))
  /\ UNCHANGED <<config, other, current, upload, file, processedImage, worker, ocrResult, ocrThrew,
                 pdfText, calls, extracted, validation, llmReply>>

\* The text completion for the OCR text returned a reply: extractFromText
\* parses it and returns the object, or the parse error fails the request.
OcrTextReturns ==
  /\ pc = "ocr_text"
  /\ \E text \in OfferedReplyTexts :
       /\ llmReply' = Some(text)
       /\ IF parseResponseText(text).ok
            THEN Finish([data |-> parseResponseText(text).value,
                         extractionMethod |-> "ocr + llm-text"])
            ELSE /\ Fail(processImageCatch("text completion error"))
                 /\ UNCHANGED <<extracted, validation>>
  /\ UNCHANGED <<config, other, current, upload, file, processedImage, worker, ocrResult, ocrThrew,
                 pdfText, calls>>

\* The text completion for the OCR text threw: there is no further fallback.
OcrTextThrows ==
  /\ pc = "ocr_text"
  /\ Fail(processImageCatch("text completion error"))
  /\ UNCHANGED <<config, other, current, upload, file, processedImage, worker, ocrResult, ocrThrew,
                 pdfText, calls, extracted, validation, llmReply>>

\* pdf-parse returned pdfData.text: processPDF passes it to extractFromText
\* when it is long enough (which throws at once without a client), else fails.
PdfParseReturns(text) ==
  /\ pc = "pdfparse"
  /\ pdfText' = Some(text)
  /\ IF pdfTextSufficient(text)
       THEN IF isConfigured
              THEN /\ Called2("extractFromText", "completions")
                   /\ pc' = "pdf_text"
                   /\ UNCHANGED <<response, raised>>
              ELSE /\ Called("extractFromText")
                   /\ Fail(processPDFCatch("OpenAI API key not configured"))
       ELSE /\ Fail(processPDFCatch("PDF appears to be a scanned image"))
            /\ UNCHANGED calls
  /\ UNCHANGED <<config, other, current, upload, file, processedImage, worker, ocrResult, ocrThrew,
                 extracted, validation, llmReply>>

\* pdf-parse (or its import) threw.
PdfParseThrows ==
  /\ pc = "pdfparse"
  /\ Fail(processPDFCatch("pdf-parse error"))
  /\ UNCHANGED <<config, other, current, upload, file, processedImage, worker, ocrResult, ocrThrew,
                 pdfText, calls, extracted, validation, llmReply>>

\* The text completion for the PDF text returned a reply: extractFromText
\* parses it and returns the object, or the parse error fails the request.
PdfTextReturns ==
  /\ pc = "pdf_text"
  /\ \E text \in OfferedReplyTexts :
       /\ llmReply' = Some(text)
       /\ IF parseResponseText(text).ok
            THEN Finish([data |-> parseResponseText(text).value,
                         extractionMethod |-> "pdf-parse + llm-text"])
            ELSE /\ Fail(processPDFCatch("text completion error"))
                 /\ UNCHANGED <<extracted, validation>>
  /\ UNCHANGED <<config, other, current, upload, file, processedImage, worker, ocrResult, ocrThrew,
                 pdfText, calls>>

\* The text completion for the PDF text threw.
PdfTextThrows ==
  /\ pc = "pdf_text"
  /\ Fail(processPDFCatch("text completion error"))
  /\ UNCHANGED <<config, other, current, upload, file, processedImage, worker, ocrResult, ocrThrew,
                 pdfText, calls, extracted, validation, llmReply>>

Next ==
  \/ \E f \in {None} \cup {Some(x) : x \in Files} : Upload(f)
  \/ \E err \in UploadErrors : UploadThrows(err)
  \/ BodyParserThrows
  \/ ExtractTimetable
  \/ \E ok \in BOOLEAN : PreprocessReturns(ok)
  \/ VisionReturns
  \/ VisionThrows
  \/ \E ok \in BOOLEAN : CreateWorkerReturns(ok)
  \/ \E text \in {None} \cup {Some(t) : t \in Texts}, confidence \in OcrConfidences :
       RecognizeReturns(text, confidence)
  \/ RecognizeThrows
  \/ TerminateReturns
  \/ TerminateThrows
  \/ OcrTextReturns
  \/ OcrTextThrows
  \/ \E text \in {None} \cup {Some(t) : t \in Texts} : PdfParseReturns(text)
  \/ PdfParseThrows
  \/ PdfTextReturns
  \/ PdfTextThrows

Spec == Init /\ [][Next]_vars

\* The same program where no enabled step waits for ever: each awaited
\* external call eventually returns or throws and its continuation runs.
FairSpec == Spec /\ WF_vars(Next)

\* ------------------------------------------------------------------ two requests

\* The variables of the request that is running, as one record.
Context ==
  [pc |-> pc, upload |-> upload, file |-> file, processedImage |-> processedImage,
   worker |-> worker, ocrResult |-> ocrResult, ocrThrew |-> ocrThrew,
   pdfText |-> pdfText, calls |-> calls, extracted |-> extracted,
   validation |-> validation, response |-> response, raised |-> raised,
   llmReply |-> llmReply]

\* Faulty variant of Switch: the processor's result is kept in a variable of
\* the module, which both requests read and write.
SwitchSharingExtracted ==
  /\ other.pc # "done"
  /\ other' = Context
  /\ pc' = other.pc
  /\ upload' = other.upload
  /\ file' = other.file
  /\ processedImage' = other.processedImage
  /\ worker' = other.worker
  /\ ocrResult' = other.ocrResult
  /\ ocrThrew' = other.ocrThrew
  /\ pdfText' = other.pdfText
  /\ calls' = other.calls
  /\ validation' = other.validation
  /\ response' = other.response
  /\ raised' = other.raised
  /\ llmReply' = other.llmReply
  /\ current' = 3 - current
  /\ UNCHANGED <<config, extracted>>

\* The event loop turns to the other request: the running request is at a
\* suspension point (an awaited call, or before or after its handlers), its
\* locals stay in its own closures and the other request's continuation runs
\* with its own.  Only config and the client handle belong to the module.
Switch ==
  /\ other.pc # "done"
  /\ other' = Context
  /\ pc' = other.pc
  /\ upload' = other.upload
  /\ file' = other.file
  /\ processedImage' = other.processedImage
  /\ worker' = other.worker
  /\ ocrResult' = other.ocrResult
  /\ ocrThrew' = other.ocrThrew
  /\ pdfText' = other.pdfText
  /\ calls' = other.calls
  /\ extracted' = other.extracted
  /\ validation' = other.validation
  /\ response' = other.response
  /\ raised' = other.raised
  /\ llmReply' = other.llmReply
  /\ current' = 3 - current
  /\ UNCHANGED config

\* The configuration of the two-request runs: the defaults, with an API key.
ConcConfigs ==
  { c \in Configs :
      /\ c.openaiApiKey /\ c.enableOCR /\ c.enableLLMVision
      /\ c.allowedFileTypes = {image_png, image_jpeg, application_pdf} }

\* The inputs of the two-request runs besides the completions (ConcReplyTexts).
ConcInputs ==
  /\ IsSome(upload) => Get(upload).size = 1024
                         /\ Get(upload).mimetype \in {image_png, application_pdf, image_gif}
  /\ IsSome(llmReply) => Get(llmReply) \in ConcReplyTexts
  /\ IsSome(ocrResult) =>
       Get(ocrResult).text = Some([lead |-> 0, core |-> MinTextLength + 1, trail |-> 0])
  /\ IsSome(pdfText) =>
       Get(pdfText) \in {None, Some([lead |-> 0, core |-> MinTextLength + 1, trail |-> 0])}

\* A step of the running request, with the inputs above.
RequestStep == Next /\ ConcInputs'

ConcInit ==
  /\ config \in ConcConfigs
  /\ FreshRequest
  /\ other = InitialContext
  /\ current = 1

ConcNext == RequestStep \/ Switch

\* Two requests to POST /extract, interleaved at their suspension points.
ConcSpec == ConcInit /\ [][ConcNext]_vars

\* ------------------------------------------------------------------ the validator alone

\* Characters a time string is enumerated over: two digits, the colon and a
\* character that is neither.
TimeChars == {"0", "9", ":", "a"}

\* Time strings a model may write: every string over TimeChars up to maxLen
\* characters, and strings with a one-digit minute, a dot for the colon, a
\* suffix, hour 24, minute 75 and 99:99.
TimeStrings(maxLen) ==
  UNION { [1..n -> TimeChars] : n \in 0..maxLen }
  \cup
  { <<"9", ":", "5">>, <<"0", "9", ".", "3", "0">>, <<"9", ":", "3", "0", "a", "m">>,
    <<"2", "4", ":", "0", "0">>, <<"9", ":", "7", "5">>, <<"9", "9", ":", "9", "9">> }

\* duration_minutes values a model may write, the schema's limit 1 among them.
ValidatorDurations == {None, Some(-5), Some(0), Some(1), Some(45)}

\* A block as the validator receives it.
ValidatorBlock(start, end, duration) ==
  [day |-> "Monday", start_time |-> start, end_time |-> end,
   duration_minutes |-> duration, subject |-> "Maths",
   subject_type |-> None, confidence |-> Some(90)]

\* Blocks with any of the time strings for start_time before a fixed end_time
\* (23:30), any of them for end_time after a fixed start_time (0:00), and
\* the rows of TimeCases with any duration.
ValidatorBlocks(times) ==
  { ValidatorBlock(s, <<"2", "3", ":", "3", "0">>, d) :
      s \in times, d \in {None, Some(45)} }
  \cup
  { ValidatorBlock(<<"0", ":", "0", "0">>, s, d) :
      s \in times, d \in {None, Some(45)} }
  \cup
  { ValidatorBlock(c.start_time, c.end_time, d) :
      c \in TimeCases, d \in ValidatorDurations }

\* The valid morning lesson of TimeCases, without a duration.
GoodBlock ==
  ValidatorBlock(<<"0", "9", ":", "0", "0">>, <<"9", ":", "3", "0">>, None)

\* result.data as a processor may return it to processFile: one of the blocks,
\* or a good block before or after it.
ValidatorInputs(blocks) ==
  { [metadata |-> Some([teacher_name |-> None, extraction_confidence |-> None]),
     timeblocks |-> Some(l)] :
      l \in { <<b>> : b \in blocks }
            \cup { <<GoodBlock, b>> : b \in blocks }
            \cup { <<b, GoodBlock>> : b \in blocks } }

\* processFile at line 614: a processor has just returned result.
ValidatorInit ==
  /\ config \in ConcConfigs
  /\ pc = "validate"
  /\ extracted \in { Some([data |-> Some(d), extractionMethod |-> "claude-vision"]) :
                       d \in ValidatorInputs(ValidatorBlocks(TimeStrings(MaxTimeLen))) }
  /\ upload = None
  /\ file = None
  /\ processedImage = ""
  /\ worker = "none"
  /\ ocrResult = None
  /\ ocrThrew = FALSE
  /\ pdfText = None
  /\ calls = NoCalls
  /\ validation = None
  /\ response = None
  /\ raised = None
  /\ llmReply = None
  /\ other = InitialContext
  /\ current = 0

\* processFile from line 614 on: validateExtraction(result.data), the value
\* returned, and the controller's answer.
Validate ==
  /\ pc = "validate"
  /\ Finish(Get(extracted))
  /\ UNCHANGED <<config, other, current, upload, file, processedImage, worker, ocrResult,
                 ocrThrew, pdfText, calls, llmReply>>

ValidatorNext == Validate

\* validateExtraction and what follows it, applied to every input above.
ValidatorSpec == ValidatorInit /\ [][ValidatorNext]_vars

\* ------------------------------------------------------------------ reading a state

Answered == pc = "done" /\ IsSome(response)
Resp == Get(response)

\* The data the processor returned is present and passes the schema.
ExtractedSchemaValid ==
  /\ IsSome(extracted)
  /\ timetableExtractionSchema(Get(extracted).data)

\* The timeblocks of the extracted data (when it passes the schema).
ExtractedBlocks == Get(Get(Get(extracted).data).timeblocks)

\* Minutes since midnight of a time string that passed timeSchema.
ClockMinutes(time) == HourOf(time) * 60 + MinOf(time)

\* The indices of the extracted blocks whose end is not after their start.
ReversedBlocks ==
  { i \in 1..Len(ExtractedBlocks) :
      ClockMinutes(ExtractedBlocks[i].end_time)
        <= ClockMinutes(ExtractedBlocks[i].start_time) }

\* ------------------------------------------------------------------ C1

\* C1: a request whose extracted data has a hard validation error (it fails
\* the schema, or a block has end_time <= start_time) is answered 422 with
\* success false and code VALIDATION_FAILED, never 200 with success true.
C1_HardErrorAnswered422 ==
  (Answered /\ IsSome(extracted)
     /\ (IF ExtractedSchemaValid THEN ReversedBlocks # {} ELSE TRUE))
  => (Resp.status = 422 /\ Resp.success = FALSE /\ Resp.code = "VALIDATION_FAILED")

\* ------------------------------------------------------------------ C2

\* C2: for every schema-valid list of timeblocks, validateTimeRanges returns a
\* non-warning entry for each block whose end minutes-since-midnight is <= its
\* start minutes, and validateExtraction returns isValid = false without
\* enrichedData whenever such a block exists, whatever the other blocks are.
C2_ReversedBlockIsAnError ==
  ExtractedSchemaValid =>
    LET entries == validateTimeRanges(ExtractedBlocks)
        hard    == { k \in 1..Len(entries) : entries[k].severity # Some("warning") }
    IN /\ \A i \in ReversedBlocks :
            \E k \in hard : entries[k].block = ExtractedBlocks[i]
       /\ Cardinality(hard) >= Cardinality(ReversedBlocks)
       /\ ReversedBlocks # {} =>
            /\ Get(validation).isValid = FALSE
            /\ Get(validation).enrichedData = None
            /\ Len(Get(validation).errors) >= Cardinality(ReversedBlocks)

\* A two-block extraction with one reversed block and one good block was rejected.
C2_Witness ==
  /\ Answered
  /\ ExtractedSchemaValid
  /\ Len(ExtractedBlocks) = 2
  /\ Cardinality(ReversedBlocks) = 1
  /\ Get(validation).isValid = FALSE

\* ------------------------------------------------------------------ C3

\* The blocks of the result the caller receives.
ResultBlocks == Get(Get(Resp.data).timeblocks)

\* C3 as stated: in every successfully validated and enriched result each
\* block's duration_minutes equals end minutes minus start minutes, also for
\* blocks that arrived carrying a duration_minutes value.
C3_DurationAlwaysEndMinusStart ==
  (Answered /\ IsSome(Resp.data)) =>
    \A i \in 1..Len(ResultBlocks) :
      ResultBlocks[i].duration_minutes
        = Some(ClockMinutes(ResultBlocks[i].end_time)
                 - ClockMinutes(ResultBlocks[i].start_time))

\* C3 amended: in every successfully validated and enriched result, a block
\* that arrived without duration_minutes has duration_minutes equal to end
\* minutes minus start minutes, and a block that arrived with a
\* duration_minutes value keeps that value.
C3_DurationBackFilled ==
  (Answered /\ IsSome(Resp.data)) =>
    /\ Len(ResultBlocks) = Len(ExtractedBlocks)
    /\ \A i \in 1..Len(ResultBlocks) :
         IF ExtractedBlocks[i].duration_minutes = None
           THEN ResultBlocks[i].duration_minutes
                  = Some(ClockMinutes(ExtractedBlocks[i].end_time)
                           - ClockMinutes(ExtractedBlocks[i].start_time))
           ELSE ResultBlocks[i].duration_minutes = ExtractedBlocks[i].duration_minutes

\* A result with one block that arrived without a duration and one that
\* arrived with one.
C3_Witness ==
  /\ Answered
  /\ IsSome(Resp.data)
  /\ Len(ExtractedBlocks) = 2
  /\ ExtractedBlocks[1].duration_minutes = None
  /\ ExtractedBlocks[2].duration_minutes # None
  /\ ResultBlocks[1].duration_minutes = Some(30)

\* ------------------------------------------------------------------ C4

\* C4: when the extracted data passes the schema and no block has
\* end_time <= start_time, the request is answered 200 with success true and
\* the enriched data, and every block with start hour < 5 or end hour > 23
\* has a warning entry naming its subject in validationWarnings.
C4_WarningsDoNotBlock ==
  (Answered /\ ExtractedSchemaValid /\ ReversedBlocks = {}) =>
    /\ Resp.status = 200
    /\ Resp.success = TRUE
    /\ IsSome(Resp.data)
    /\ Resp.data = Get(validation).enrichedData
    /\ IsSome(Resp.warnings)
    /\ \A i \in 1..Len(ExtractedBlocks) :
         (HourOf(ExtractedBlocks[i].start_time) < 5
            \/ HourOf(ExtractedBlocks[i].end_time) > 23)
         => \E k \in 1..Len(Get(Resp.warnings)) :
              /\ Get(Resp.warnings)[k].block = ExtractedBlocks[i].subject
              /\ Get(Resp.warnings)[k].message = "Time outside reasonable school hours"

\* A successful answer whose blocks start before 5 and end in hour 24.
C4_Witness ==
  /\ Answered
  /\ ExtractedSchemaValid
  /\ ReversedBlocks = {}
  /\ Len(ExtractedBlocks) = 2
  /\ HourOf(ExtractedBlocks[1].start_time) < 5
  /\ HourOf(ExtractedBlocks[2].end_time) > 23
  /\ Resp.status = 200
  /\ Len(Get(Resp.warnings)) = 2

\* ------------------------------------------------------------------ C5

\* C5: compared as clock times with minutes included, every block whose
\* start_time is earlier than 05:00 or whose end_time is later than 23:00
\* yields a warning-severity entry from validateTimeRanges, and a block lying
\* entirely inside 05:00-23:00 yields none.
C5_ClockTimesOutsideHoursWarn ==
  ExtractedSchemaValid =>
    LET entries == validateTimeRanges(ExtractedBlocks) IN
    \A i \in 1..Len(ExtractedBlocks) :
      (ClockMinutes(ExtractedBlocks[i].start_time) < 5 * 60
         \/ ClockMinutes(ExtractedBlocks[i].end_time) > 23 * 60)
      <=> \E k \in 1..Len(entries) :
            /\ entries[k].severity = Some("warning")
            /\ entries[k].block = ExtractedBlocks[i]

\* ------------------------------------------------------------------ C6

\* The extracted data is an object whose timeblocks is the empty array.
ExtractedEmptyList ==
  /\ IsSome(extracted)
  /\ IsSome(Get(extracted).data)
  /\ Get(Get(extracted).data).timeblocks = Some(<<>>)

\* C6: for any metadata, an extraction whose timeblocks is the empty array
\* fails validateTimetable, so validateExtraction returns isValid = false and
\* neither the time-range check nor enrichment is run.
C6_EmptyListFailsValidation ==
  ExtractedEmptyList =>
    /\ validateTimetable(Get(extracted).data).success = FALSE
    /\ Get(validation).isValid = FALSE
    /\ Get(validation).enrichedData = None
    /\ Get(validation).ran = <<"validateTimetable">>

\* An extraction with valid metadata and no timeblocks was validated.
C6_Witness ==
  /\ Answered
  /\ ExtractedEmptyList
  /\ IsSome(Get(Get(extracted).data).metadata)
  /\ Get(validation).isValid = FALSE

\* ------------------------------------------------------------------ C7

\* C7: given MIME type image/gif, processFile fails with UNSUPPORTED_FILE_TYPE
\* and invokes neither the image processor nor the PDF processor.
C7_GifIsUnsupported ==
  (IsSome(file) /\ Get(file).mimetype = image_gif) =>
    /\ calls.processImage = 0
    /\ calls.processPDF = 0
    /\ Answered => Resp.code = "UNSUPPORTED_FILE_TYPE"

\* ------------------------------------------------------------------ C8

\* processFile has been entered for the uploaded file.
Routed == IsSome(file) /\ pc \notin {"idle", "controller"}

C9_ShortPdfTextFailsWithoutLLM ==
  IsSome(pdfText) =>
    LET short == ~IsSome(Get(pdfText)) \/ Get(Get(pdfText)).core <= 50 IN
    /\ short =>
         /\ Answered
         /\ Resp.success = FALSE
         /\ Resp.code = "PDF_PROCESSING_FAILED"
         /\ calls.extractFromText = 0
         /\ calls.completions = 0
         /\ calls.extractWithVision = 0
         /\ calls.extractWithOCR = 0
         /\ calls.createWorker = 0
         /\ calls.processImage = 0
    /\ calls.extractFromText > 0 => ~short

\* A PDF whose text is 52 characters long but 50 after trimming was refused.
C9_Witness ==
  /\ Answered
  /\ pdfText = Some(Some([lead |-> 1, core |-> 50, trail |-> 1]))
  /\ Resp.code = "PDF_PROCESSING_FAILED"

\* ------------------------------------------------------------------ C10

\* The vision call was issued, is no longer pending and gave no result: it threw.
VisionFailed ==
  /\ calls.extractWithVision >= 1
  /\ pc # "vision"
  /\ ~(IsSome(extracted) /\ Get(extracted).extractionMethod = "claude-vision")

\* C10: the vision call is issued at most once; when it threw and OCR is
\* enabled, exactly one OCR run and at most one text-only LLM call follow, and
\* a failure of the OCR path or of its text call fails the request with no
\* further fallback; when OCR is disabled the vision error fails the request.
C10_SingleFallback ==
  /\ calls.extractWithVision <= 1
  /\ VisionFailed =>
       IF config.enableOCR
         THEN /\ calls.extractWithOCR = 1
              /\ calls.createWorker = 1
              /\ calls.recognize <= 1
              /\ calls.extractFromText <= 1
              /\ calls.completions <= 2
              /\ (Answered /\ ~IsSome(extracted)) =>
                   /\ Resp.success = FALSE
                   /\ Resp.code = "IMAGE_PROCESSING_FAILED"
                   /\ Resp.message # "vision error"
         ELSE /\ Answered
              /\ Resp.success = FALSE
              /\ Resp.code = "IMAGE_PROCESSING_FAILED"
              /\ Resp.message = "vision error"
              /\ calls.extractWithOCR = 0
              /\ calls.createWorker = 0
              /\ calls.extractFromText = 0
              /\ calls.completions = 1

\* The vision call threw, OCR ran once and its text call gave the result.
C10_Witness ==
  /\ Answered
  /\ VisionFailed
  /\ calls.extractWithOCR = 1
  /\ calls.extractFromText = 1
  /\ IsSome(extracted)
  /\ Get(extracted).extractionMethod = "ocr + llm-text"
  /\ Resp.status = 200

\* ------------------------------------------------------------------ C11

\* performOCR returned a result and its worker was terminated: extractWithOCR
\* has made its two checks.
OcrChecked == IsSome(ocrResult) /\ worker = "terminated"

\* The OCR confidence is below the configured threshold.
OcrLowConfidence == Get(ocrResult).confidence < config.ocrConfidenceThreshold

\* The OCR text is absent or, trimmed, shorter than 50 characters.
OcrShortText ==
  \/ ~IsSome(Get(ocrResult).text)
  \/ Get(Get(ocrResult).text).core < 50

\* C11: on the OCR path, when the OCR confidence is below the configured
\* threshold or the trimmed text is shorter than 50 characters, the request
\* fails with IMAGE_PROCESSING_FAILED carrying the quality message and no text
\* completion is issued for that OCR output; extractFromText is called on the
\* OCR path only when both checks passed.
C11_OcrQualityGate ==
  /\ (OcrChecked /\ (OcrLowConfidence \/ OcrShortText)) =>
       /\ Answered
       /\ Resp.success = FALSE
       /\ Resp.status = 500
       /\ Resp.code = "IMAGE_PROCESSING_FAILED"
       /\ Resp.message = (IF OcrLowConfidence THEN "OCR confidence too low"
                          ELSE "Insufficient text extracted from image")
       /\ calls.extractFromText = 0
       /\ calls.completions = calls.extractWithVision
       /\ ~IsSome(extracted)
  /\ (calls.extractWithOCR > 0 /\ calls.extractFromText > 0) =>
       (OcrChecked /\ ~OcrLowConfidence /\ ~OcrShortText)

\* An OCR result with enough text but a confidence just under the threshold
\* was refused without a text completion.
C11_Witness ==
  /\ Answered
  /\ OcrChecked
  /\ Get(ocrResult).confidence = 59
  /\ ~OcrShortText
  /\ Resp.message = "OCR confidence too low"
  /\ calls.extractFromText = 0

\* A 49-character OCR text with sufficient confidence was refused.
C11_WitnessShortText ==
  /\ Answered
  /\ OcrChecked
  /\ ~OcrLowConfidence
  /\ Get(ocrResult).text = Some([lead |-> 0, core |-> 49, trail |-> 0])
  /\ Resp.message = "Insufficient text extracted from image"

\* ------------------------------------------------------------------ C12

\* The request was answered with an error response.
AnsweredError == Answered /\ Resp.success = FALSE

\* The status the stated table gives a code.
StatedStatus(code) ==
  IF code \in {"NO_FILE_PROVIDED", "INVALID_REQUEST"} THEN 400
  ELSE IF code = "FILE_TOO_LARGE" THEN 413
  ELSE IF code = "UNSUPPORTED_FILE_TYPE" THEN 415
  ELSE IF code = "VALIDATION_FAILED" THEN 422
  ELSE 500

\* The error codes the program can put into an error object or a response.
ErrorCodes ==
  {"NO_FILE_PROVIDED", "INVALID_REQUEST", "UPLOAD_ERROR", "FILE_TOO_LARGE",
   "UNSUPPORTED_FILE_TYPE", "VALIDATION_FAILED", "IMAGE_PROCESSING_FAILED",
   "PDF_PROCESSING_FAILED", "PROCESSING_FAILED", "INTERNAL_ERROR",
   "INTERNAL_SERVER_ERROR", ""}

\* C12 as stated: every error response has the status the table gives its
\* code: 400 for NO_FILE_PROVIDED and INVALID_REQUEST, 413 for FILE_TOO_LARGE,
\* 415 for UNSUPPORTED_FILE_TYPE, 422 for VALIDATION_FAILED, 500 for every
\* other code.
C12_StatusSelectedByCode ==
  AnsweredError => Resp.status = StatedStatus(Resp.code)

\* C12 amended: an error response written by the upload middleware or the
\* controller has the status the table gives its code, where UPLOAD_ERROR
\* (any other multer error) is answered 400 as well; an error that reaches the
\* global errorHandler is answered with its own statusCode, 500 when it has
\* none, under the code INTERNAL_SERVER_ERROR when it has no code.  The
\* controller's catch maps every code as the table says.
C12_StatusByCodeOrOwnStatus ==
  /\ AnsweredError =>
       IF Resp.code = "INTERNAL_SERVER_ERROR"
         THEN /\ IsSome(raised)
              /\ Get(raised).code = ""
              /\ Resp.status = (IF IsSome(Get(raised).statusCode)
                                  THEN Get(Get(raised).statusCode) ELSE 500)
         ELSE Resp.status = (IF Resp.code = "UPLOAD_ERROR" THEN 400
                             ELSE StatedStatus(Resp.code))
  /\ \A code \in ErrorCodes \ {"NO_FILE_PROVIDED"} :
       statusCode(code) = StatedStatus(code)

\* A multer error other than the size and field-name limits was answered 400
\* with code UPLOAD_ERROR.
C12_Witness ==
  /\ AnsweredError
  /\ Resp.code = "UPLOAD_ERROR"
  /\ Resp.status = 400
  /\ Get(raised).code = "LIMIT_FILE_COUNT"

\* ------------------------------------------------------------------ C13

\* The stated taxonomy of error codes.
Taxonomy ==
  {"UNSUPPORTED_FILE_TYPE", "FILE_TOO_LARGE", "NO_FILE_PROVIDED", "VALIDATION_FAILED",
   "IMAGE_PROCESSING_FAILED", "PDF_PROCESSING_FAILED", "INTERNAL_ERROR"}

\* The response carries the code and message of the error object as thrown.
ReachedUnchanged ==
  /\ Resp.code = Get(raised).code
  /\ Resp.message = Get(raised).message

C14_Every200CarriesValidData ==
  (Answered /\ Resp.status = 200) =>
    /\ Resp.success = TRUE
    /\ IsSome(Resp.data)
    /\ timetableExtractionSchema(Resp.data)
    /\ Len(ResultBlocks) >= 1
    /\ \A i \in 1..Len(ResultBlocks) :
         ClockMinutes(ResultBlocks[i].end_time) > ClockMinutes(ResultBlocks[i].start_time)

\* ------------------------------------------------------------------ C15

\* The metadata of the extracted data and of the result the caller receives.
ExtractedMetadata == Get(Get(Get(extracted).data).metadata)
ResultMetadata == Get(Get(Resp.data).metadata)

\* C15: in every successful result, a block whose extracted data omitted
\* subject_type carries subject_type 'academic', a block that omitted
\* confidence carries confidence 1, and metadata that omitted
\* extraction_confidence carries 0.5.
C15_DefaultsInResult ==
  (Answered /\ IsSome(Resp.data)) =>
    /\ \A i \in 1..Len(ResultBlocks) :
         /\ ExtractedBlocks[i].subject_type = None
              => ResultBlocks[i].subject_type = Some("academic")
         /\ ExtractedBlocks[i].confidence = None
              => ResultBlocks[i].confidence = Some(100)
    /\ ExtractedMetadata.extraction_confidence = None
         => ResultMetadata.extraction_confidence = Some(50)

\* What the result carries instead: the extracted data's own fields, while the
\* schema output that has the defaults is left unused.
C15_ResultCarriesRawFields ==
  (Answered /\ IsSome(Resp.data)) =>
    /\ ResultMetadata = ExtractedMetadata
    /\ \A i \in 1..Len(ResultBlocks) :
         /\ ResultBlocks[i].subject_type = ExtractedBlocks[i].subject_type
         /\ ResultBlocks[i].confidence = ExtractedBlocks[i].confidence
    /\ validateTimetable(Get(extracted).data).data # Resp.data

\* ------------------------------------------------------------------ C16

\* The reply of the completion that has just returned.
ReplyText == Get(llmReply)

\* The reply is one JSON object and nothing else.
BareObject(text) ==
  Len(text) = 3 /\ text[1].t = "{" /\ text[2].t = "members" /\ text[3].t = "}"

\* The positions at which a brace-delimited JSON object starts in the reply.
ObjectStarts(text) ==
  { i \in 1..Len(text) :
      i + 2 <= Len(text) /\ text[i].t = "{" /\ text[i + 1].t = "members"
        /\ text[i + 2].t = "}" }

\* The first brace-delimited JSON object in a reply that has one.
FirstObject(text) ==
  text[(CHOOSE i \in ObjectStarts(text) : \A k \in ObjectStarts(text) : i <= k) + 1].v

\* The call whose reply is ReplyText returned this object as its data.
CallReturned(object) ==
  /\ Answered
  /\ IsSome(extracted)
  /\ Get(extracted).data = object

\* The call whose reply is ReplyText threw: no data came out of it, and the
\* request failed or, after a vision call, went on to the OCR fallback.
CallThrew ==
  /\ ~IsSome(extracted)
  /\ \/ AnsweredError /\ Resp.code \in {"IMAGE_PROCESSING_FAILED", "PDF_PROCESSING_FAILED"}
     \/ pc = "ocr_create" /\ calls.extractWithVision = 1 /\ calls.extractFromText = 0

C16_WitnessParsed ==
  /\ Answered
  /\ IsSome(llmReply)
  /\ BareObject(ReplyText)
  /\ calls.extractWithVision = 1
  /\ calls.extractFromText = 0
  /\ Get(extracted).data = ReplyText[2].v

\* ------------------------------------------------------------------ C17

\* C17 as stated: each invocation of extractWithVision or extractFromText
\* issues exactly one completion request.
C17_ExactlyOneRequestPerInvocation ==
  calls.completions = calls.extractWithVision + calls.extractFromText

\* C17 amended: no LLM request is retried.  Each invocation of
\* extractWithVision or extractFromText issues exactly one completion request
\* when the client is configured and none when it is not (it throws before
\* any request), and a failure is rethrown; so a PDF request issues at most
\* one LLM request and an image request at most two, one vision request and
\* one text request only after that vision request failed.
C17_NoRetry ==
  /\ calls.extractWithVision <= 1
  /\ calls.extractFromText <= 1
  /\ calls.completions
       = (IF isConfigured THEN calls.extractWithVision + calls.extractFromText ELSE 0)
  /\ calls.processPDF = 1 =>
       /\ calls.extractWithVision = 0
       /\ calls.completions <= 1
  /\ calls.processImage = 1 =>
       /\ calls.completions <= 2
       /\ calls.extractFromText = 1 => (calls.extractWithVision = 1 => VisionFailed)
  /\ (pc = "done" /\ calls.extractFromText = 1 /\ ~IsSome(extracted)) =>
       /\ AnsweredError
       /\ Resp.code \in {"IMAGE_PROCESSING_FAILED", "PDF_PROCESSING_FAILED"}

\* An image request issued two completion requests: the vision request, which
\* failed, and then the text request, which failed too and ended the request.
C17_Witness ==
  /\ AnsweredError
  /\ calls.processImage = 1
  /\ calls.extractWithVision = 1
  /\ calls.extractFromText = 1
  /\ calls.completions = 2
  /\ Resp.message = "text completion error"

\* A PDF request without an API key: extractFromText was invoked and threw
\* without a completion request.
C17_WitnessNoClient ==
  /\ AnsweredError
  /\ calls.processPDF = 1
  /\ calls.extractFromText = 1
  /\ calls.completions = 0

\* ------------------------------------------------------------------ C19

\* The client sent a file part and upload.single answered or passed it on.
Uploaded == IsSome(upload) /\ pc # "idle"

\* Nothing behind the upload middleware ran: req.file was never set, no
\* processor, OCR or LLM call was made and nothing was extracted or validated.
NothingRan ==
  /\ file = None
  /\ calls = NoCalls
  /\ processedImage = ""
  /\ worker = "none"
  /\ extracted = None
  /\ validation = None
  /\ llmReply = None

\* C19: a file whose MIME type is not in config.allowedFileTypes is answered
\* 415 with code UNSUPPORTED_FILE_TYPE, and a file of an allowed type that is
\* larger than config.maxFileSize is answered 413 with code FILE_TOO_LARGE; in
\* both cases the answer comes from the upload middleware, the controller is
\* not run and no processor, OCR or LLM call is made.
C19_UploadGate ==
  Uploaded =>
    IF Get(upload).mimetype \notin config.allowedFileTypes
      THEN /\ AnsweredError
           /\ Resp.status = 415
           /\ Resp.code = "UNSUPPORTED_FILE_TYPE"
           /\ Resp.details = ""
           /\ NothingRan
    ELSE IF Get(upload).size > config.maxFileSize
      THEN /\ AnsweredError
           /\ Resp.status = 413
           /\ Resp.code = "FILE_TOO_LARGE"
           /\ NothingRan
    ELSE file = upload

\* A GIF under the default allowed list was refused by the upload middleware.
C19_Witness ==
  /\ Uploaded
  /\ Get(upload).mimetype = image_gif
  /\ image_gif \notin config.allowedFileTypes
  /\ Resp.status = 415
  /\ NothingRan

\* A PNG one byte over the maximum was refused by the upload middleware.
C19_WitnessTooLarge ==
  /\ Uploaded
  /\ Get(upload).mimetype = image_png
  /\ Get(upload).size = config.maxFileSize + 1
  /\ Resp.status = 413
  /\ NothingRan

\* ------------------------------------------------------------------ C20

\* The request reached the controller without a file.
ControllerRanWithoutFile ==
  pc \notin {"idle", "controller"} /\ file = None /\ raised = None

C20_WitnessNoFile ==
  /\ ControllerRanWithoutFile
  /\ upload = None
  /\ Resp.code = "NO_FILE_PROVIDED"

\* ------------------------------------------------------------------ C18

\* The state of request r: the running one's variables, or the suspended
\* one's saved ones.
Ctx(r) == IF current = r THEN Context ELSE other

\* What the claim compares of a response.
Outcome(resp) ==
  [status |-> resp.status, success |-> resp.success, code |-> resp.code,
   data |-> resp.data]

\* The outcome a request with state c gets when it runs alone: it follows
\* from what its own external calls gave it (its upload or middleware
\* error, the error thrown in its processor, or the object parsed from its
\* own completion).
OutcomeAlone(c) ==
  IF IsSome(c.extracted)
    THEN Outcome(controllerResponse(
           processFileReturn(Get(c.extracted),
                             validateExtraction(Get(c.extracted).data))))
  ELSE IF IsSome(c.raised)
    THEN IF c.file = None
           THEN Outcome(middlewareResponse(Get(c.raised)))
           ELSE [status |-> statusCode(Get(c.raised).code), success |-> FALSE,
                 code |-> Get(c.raised).code, data |-> None]
  ELSE [status |-> 400, success |-> FALSE, code |-> "NO_FILE_PROVIDED", data |-> None]

\* Request state c is one a request running alone can be in: its response is
\* OutcomeAlone, its extracted data is what its own completion parses to, its
\* validation is that of its own data, and it ran at most one processor.
AsAlone(c) ==
  /\ IsSome(c.response) = (c.pc = "done")
  /\ IsSome(c.response) => Outcome(Get(c.response)) = OutcomeAlone(c)
  /\ (IsSome(c.extracted) /\ IsSome(c.llmReply)) =>
       Get(c.extracted).data = parseResponseText(Get(c.llmReply)).value
  /\ IsSome(c.extracted) =>
       c.validation = Some(validateExtraction(Get(c.extracted).data))
  /\ c.calls.processImage + c.calls.processPDF <= 1
  /\ c.calls.completions <= 2

C18_WitnessBothAnswered ==
  /\ current = 1
  /\ pc = "done"
  /\ calls.completions = 2
  /\ Resp.code = "IMAGE_PROCESSING_FAILED"
  /\ other.pc = "done"
  /\ Get(other.response).status = 200

\* A single request running alone is always in a state AsAlone describes.
C18_AloneIsAsAlone == AsAlone(Context)

\* ------------------------------------------------------------------ C21

\* One or two digits, a colon, and exactly two digits.
HourMinuteString(s) ==
  \E n \in {1, 2} :
    /\ Len(s) = n + 3
    /\ \A k \in 1..n : s[k] \in Digits
    /\ s[n + 1] = ":"
    /\ s[n + 2] \in Digits
    /\ s[n + 3] \in Digits

\* The processor's result carries an array of timeblocks.
ExtractedHasBlocks ==
  /\ IsSome(extracted)
  /\ IsSome(Get(extracted).data)
  /\ IsSome(Get(Get(extracted).data).timeblocks)

\* The indices of the extracted blocks with a start_time or end_time that is
\* not such a string.
MalformedBlocks ==
  { i \in 1..Len(ExtractedBlocks) :
      ~HourMinuteString(ExtractedBlocks[i].start_time)
        \/ ~HourMinuteString(ExtractedBlocks[i].end_time) }

\* C21: when any block's start_time or end_time is not a string of one or two
\* digits, a colon and exactly two digits, schema validation rejects the whole
\* extraction, and validateExtraction returns isValid = false having called
\* validateTimetable only: the time-range check (which splits the string on
\* ':') and enrichment are not run on it.
C21_MalformedTimeRejected ==
  (IsSome(validation) /\ ExtractedHasBlocks /\ MalformedBlocks # {}) =>
    /\ validateTimetable(Get(extracted).data).success = FALSE
    /\ Get(validation).isValid = FALSE
    /\ Get(validation).enrichedData = None
    /\ Get(validation).ran = <<"validateTimetable">>

\* A good block followed by a block that starts at '9:30am' was rejected by
\* the schema alone.
C21_Witness ==
  /\ IsSome(validation)
  /\ ExtractedHasBlocks
  /\ Len(ExtractedBlocks) = 2
  /\ MalformedBlocks = {2}
  /\ ExtractedBlocks[2].start_time = <<"9", ":", "3", "0", "a", "m">>
  /\ Get(validation).ran = <<"validateTimetable">>

\* A block that ends at '9:5' was rejected by the schema alone.
C21_WitnessShortMinute ==
  /\ IsSome(validation)
  /\ ExtractedHasBlocks
  /\ Len(ExtractedBlocks) = 1
  /\ ExtractedBlocks[1].end_time = <<"9", ":", "5">>
  /\ Get(validation).isValid = FALSE

\* A block with a dot for the colon ('09.30') was rejected by the schema alone.
C21_WitnessDot ==
  /\ IsSome(validation)
  /\ ExtractedHasBlocks
  /\ ExtractedBlocks[1].start_time = <<"0", "9", ".", "3", "0">>
  /\ Get(validation).isValid = FALSE

\* ------------------------------------------------------------------ C22

\* processImage has chosen its path: preprocessImage has returned.
PathChosen == calls.processImage = 1 /\ pc # "preprocess"

\* Vision is enabled and an LLM credential is configured.
VisionAvailable == config.enableLLMVision /\ config.openaiApiKey

\* C22: the vision call is made, and made before any OCR run, if and only if
\* vision is enabled and a credential is configured; otherwise, with OCR
\* enabled, the OCR path is taken without a vision call; with neither
\* available the request fails with IMAGE_PROCESSING_FAILED and no OCR run
\* and no LLM call is made.
C22_PathByToggles ==
  /\ pc = "preprocess" =>
       /\ calls.extractWithVision = 0
       /\ calls.extractWithOCR = 0
       /\ calls.completions = 0
  /\ PathChosen =>
       /\ calls.extractWithVision = (IF VisionAvailable THEN 1 ELSE 0)
       /\ (VisionAvailable /\ calls.extractWithOCR > 0) => VisionFailed
       /\ (~VisionAvailable /\ config.enableOCR) =>
            /\ calls.extractWithOCR = 1
            /\ calls.createWorker = 1
            /\ calls.completions = calls.extractFromText
       /\ (~VisionAvailable /\ ~config.enableOCR) =>
            /\ Answered
            /\ Resp.success = FALSE
            /\ Resp.code = "IMAGE_PROCESSING_FAILED"
            /\ Resp.status = 500
            /\ calls.extractWithOCR = 0
            /\ calls.createWorker = 0
            /\ calls.recognize = 0
            /\ calls.extractFromText = 0
            /\ calls.completions = 0

\* Vision is enabled but no credential is configured: the OCR path ran
\* directly, up to the end of the request, without a vision call.
C22_Witness ==
  /\ Answered
  /\ PathChosen
  /\ config.enableLLMVision
  /\ ~config.openaiApiKey
  /\ config.enableOCR
  /\ calls.extractWithVision = 0
  /\ worker = "terminated"

\* Neither path is available: the request failed at once.
C22_WitnessNoMethod ==
  /\ Answered
  /\ PathChosen
  /\ ~VisionAvailable
  /\ ~config.enableOCR
  /\ Resp.message = "No extraction method available"

\* Vision is available and was tried first; OCR ran after it had failed.
C22_WitnessVisionFirst ==
  /\ PathChosen
  /\ VisionAvailable
  /\ calls.extractWithVision = 1
  /\ calls.extractWithOCR = 1

\* ------------------------------------------------------------------ C23

\* The validator functions in the order of the pipeline.
ValidatorOrder == <<"validateTimetable", "validateTimeRanges", "enrichTimeBlocks">>

\* The validator functions that were called, in order.
Ran == Get(validation).ran

\* A processor call or one of its awaited calls is pending.
ProcessorPending ==
  pc \in {"preprocess", "vision", "ocr_create", "ocr_recognize", "ocr_terminate",
          "ocr_text", "pdfparse", "pdf_text"}

\* C23: validateExtraction runs only after exactly one processor has
\* returned its result; validateTimeRanges runs only after the schema
\* passed, enrichTimeBlocks only after validateTimeRanges found no block
\* with end <= start; and when validation fails no duration_minutes is
\* written: the extracted data is as the processor returned it and there is
\* no enriched data.
C23_PipelineOrder ==
  /\ (ProcessorPending \/ pc \in {"idle", "controller"}) => validation = None
  /\ IsSome(validation) =>
       /\ IsSome(extracted)
       /\ calls.processImage + calls.processPDF = 1
       /\ Len(Ran) \in 1..3
       /\ Ran = SubSeq(ValidatorOrder, 1, Len(Ran))
       /\ Len(Ran) >= 2 => ExtractedSchemaValid
       /\ Len(Ran) = 3 => (ExtractedSchemaValid /\ ReversedBlocks = {})
       /\ ~Get(validation).isValid =>
            /\ Len(Ran) < 3
            /\ Get(validation).enrichedData = None
            /\ Get(validation).dataAfter = Get(extracted).data

\* Validation failed in the time-range check on an extraction that has a
\* block without duration_minutes: the block still has none.
C23_Witness ==
  /\ Answered
  /\ ExtractedSchemaValid
  /\ ReversedBlocks # {}
  /\ Ran = <<"validateTimetable", "validateTimeRanges">>
  /\ \E i \in 1..Len(ExtractedBlocks) : ExtractedBlocks[i].duration_minutes = None
  /\ Get(validation).dataAfter = Get(extracted).data

\* Validation passed and enrichment wrote a duration into the extracted data.
C23_WitnessEnriched ==
  /\ Answered
  /\ ExtractedSchemaValid
  /\ Ran = ValidatorOrder
  /\ Get(validation).dataAfter # Get(extracted).data

\* ------------------------------------------------------------------ C24

\* The request was answered 200 with data.
SuccessfulResult == Answered /\ Resp.status = 200 /\ IsSome(Resp.data)

\* C24: in every successful result every block has a duration_minutes of at
\* least 1: the value the block arrived with, which the schema let through,
\* or end minutes minus start minutes of a block whose end is after its start.
C24_DurationsPositive ==
  SuccessfulResult =>
    /\ Len(ResultBlocks) = Len(ExtractedBlocks)
    /\ \A i \in 1..Len(ResultBlocks) :
         /\ IsSome(ResultBlocks[i].duration_minutes)
         /\ Get(ResultBlocks[i].duration_minutes) \in Nat
         /\ Get(ResultBlocks[i].duration_minutes) >= 1
         /\ \/ ResultBlocks[i].duration_minutes = ExtractedBlocks[i].duration_minutes
            \/ /\ ClockMinutes(ExtractedBlocks[i].end_time)
                    > ClockMinutes(ExtractedBlocks[i].start_time)
               /\ Get(ResultBlocks[i].duration_minutes)
                    = ClockMinutes(ExtractedBlocks[i].end_time)
                        - ClockMinutes(ExtractedBlocks[i].start_time)

\* A successful result whose first block got the computed duration 30 and
\* whose second block kept the smallest duration the schema allows.
C24_Witness ==
  /\ SuccessfulResult
  /\ Len(ExtractedBlocks) = 2
  /\ ExtractedBlocks[1].duration_minutes = None
  /\ ExtractedBlocks[2].duration_minutes = Some(1)
  /\ ResultBlocks[1].duration_minutes = Some(30)
  /\ ResultBlocks[2].duration_minutes = Some(1)

\* A block that arrived with duration_minutes 0 was rejected by the schema.
C24_WitnessZeroRejected ==
  /\ Answered
  /\ ExtractedHasBlocks
  /\ Len(ExtractedBlocks) = 1
  /\ ExtractedBlocks[1].duration_minutes = Some(0)
  /\ MalformedBlocks = {}
  /\ Get(validation).ran = <<"validateTimetable">>

\* ------------------------------------------------------------------ C25

\* enrichTimeBlocks was called on the extracted blocks.
Enriched == IsSome(validation) /\ Ran = ValidatorOrder

\* What enrichTimeBlocks returned.
EnrichedBlocks == Get(Get(Get(validation).enrichedData).timeblocks)

\* C25: enrichTimeBlocks returns as many blocks as it was given, in the same
\* order, each with every field other than duration_minutes as it was and
\* with a duration_minutes that was present as it was; only an absent
\* duration_minutes is written; applied to its own result it changes nothing.
C25_EnrichmentFrame ==
  Enriched =>
    /\ Len(EnrichedBlocks) = Len(ExtractedBlocks)
    /\ \A i \in 1..Len(ExtractedBlocks) :
         /\ EnrichedBlocks[i].day = ExtractedBlocks[i].day
         /\ EnrichedBlocks[i].start_time = ExtractedBlocks[i].start_time
         /\ EnrichedBlocks[i].end_time = ExtractedBlocks[i].end_time
         /\ EnrichedBlocks[i].subject = ExtractedBlocks[i].subject
         /\ EnrichedBlocks[i].subject_type = ExtractedBlocks[i].subject_type
         /\ EnrichedBlocks[i].confidence = ExtractedBlocks[i].confidence
         /\ DOMAIN EnrichedBlocks[i] = DOMAIN ExtractedBlocks[i]
         /\ IsSome(ExtractedBlocks[i].duration_minutes) =>
              EnrichedBlocks[i].duration_minutes = ExtractedBlocks[i].duration_minutes
         /\ IsSome(EnrichedBlocks[i].duration_minutes)
    /\ enrichTimeBlocks(EnrichedBlocks) = EnrichedBlocks
    /\ enrichTimeBlocks(ExtractedBlocks) = EnrichedBlocks

\* A block that arrived with 45 minutes for 09:00-9:30 kept them, and the
\* block after it, which arrived without a duration, got 30.
C25_Witness ==
  /\ Enriched
  /\ Len(ExtractedBlocks) = 2
  /\ ExtractedBlocks[1].duration_minutes = Some(45)
  /\ ExtractedBlocks[1].end_time = <<"9", ":", "3", "0">>
  /\ ExtractedBlocks[1].start_time = <<"0", "9", ":", "0", "0">>
  /\ ExtractedBlocks[2].duration_minutes = None
  /\ EnrichedBlocks[1].duration_minutes = Some(45)
  /\ EnrichedBlocks[2].duration_minutes = Some(30)

\* ------------------------------------------------------------------ C26

\* The string denotes a time of day: hour 0..23, minute 0..59.
ClockTime(time) ==
  /\ HourMinuteString(time)
  /\ HourOf(time) \in 0..23
  /\ MinOf(time) \in 0..59

\* C26: every start_time and end_time of a successful result denotes a real
\* clock time, hour in 0..23 and minute in 0..59; an extraction with a time
\* such as '24:00', '9:75' or '99:99' never yields a success result.
C26_ClockTimesOnly ==
  SuccessfulResult =>
    \A i \in 1..Len(ResultBlocks) :
      /\ ClockTime(ResultBlocks[i].start_time)
      /\ ClockTime(ResultBlocks[i].end_time)

\* ------------------------------------------------------------------ C27

\* C27: when no LLM credential is configured, no image request is answered
\* 200 with success true; in particular a request whose OCR run passed its
\* quality checks, and so got a result without data from extractWithOCR, ends
\* in an error response.
C27_NoCredentialNoSuccess ==
  (Answered /\ ~config.openaiApiKey /\ calls.processImage = 1) =>
    /\ ~(Resp.status = 200 /\ Resp.success)
    /\ (OcrChecked /\ ~OcrLowConfidence /\ ~OcrShortText) =>
         (Resp.success = FALSE /\ Resp.status >= 400)

\* ------------------------------------------------------------------ C28

\* The image path / the PDF path was entered and ended without a result.
ImagePathFailed == Answered /\ calls.processImage = 1 /\ ~IsSome(extracted)
PdfPathFailed == Answered /\ calls.processPDF = 1 /\ ~IsSome(extracted)

\* The failures of the image path and of the PDF path, by message.
ImageFailures ==
  {"vision error", "createWorker error", "recognize error", "terminate error",
   "OCR confidence too low", "Insufficient text extracted from image",
   "text completion error", "No extraction method available"}

PdfFailures ==
  {"pdf-parse error", "PDF appears to be a scanned image",
   "OpenAI API key not configured", "text completion error"}

C28_WitnessPdf ==
  /\ PdfPathFailed
  /\ calls.completions = 1
  /\ Resp.message = "text completion error"
  /\ Resp.code = "PDF_PROCESSING_FAILED"
  /\ Resp.status = 500

\* ------------------------------------------------------------------ C29

\* createWorker returned a worker in this request.
WorkerCreated == worker # "none"

C29_WitnessReturned ==
  /\ pc = "ocr_text"
  /\ IsSome(ocrResult)
  /\ worker = "terminated"
  /\ calls.terminate = 1

\* ------------------------------------------------------------------ C30

\* sharp threw: preprocessImage returned the original buffer.
PreprocessFailed == processedImage = "original"

\* C30: the step that ends preprocessing has the same effect whether sharp
\* returned or threw: the vision call when vision is available, else the OCR
\* run when OCR is enabled, else the failure for lack of a method; when sharp
\* threw, the next step works on the original buffer, and a request that
\* fails afterwards fails with the error of a later step.
C30_PreprocessFailureHarmless ==
  /\ [][pc = "preprocess" =>
          /\ processedImage' \in {"processed", "original"}
          /\ pc' = (IF VisionAvailable THEN "vision"
                    ELSE IF config.enableOCR THEN "ocr_create" ELSE "done")
          /\ calls'.extractWithVision = (IF VisionAvailable THEN 1 ELSE 0)
          /\ calls'.extractWithOCR
               = (IF ~VisionAvailable /\ config.enableOCR THEN 1 ELSE 0)
          /\ IsSome(response') <=> (~VisionAvailable /\ ~config.enableOCR)]_vars
  /\ [](PathChosen => processedImage \in {"processed", "original"})
  /\ []((PathChosen /\ PreprocessFailed /\ Answered /\ ~Resp.success) =>
          /\ Resp.message \in ImageFailures
          /\ Resp.message = "No extraction method available"
               <=> (~VisionAvailable /\ ~config.enableOCR))

\* sharp threw and the vision call on the original buffer gave the result:
\* the request succeeded.
C30_Witness ==
  /\ Answered
  /\ PreprocessFailed
  /\ IsSome(extracted)
  /\ Get(extracted).extractionMethod = "claude-vision"
  /\ Resp.status = 200
  /\ IsSome(Resp.data)

\* sharp threw and the OCR run on the original buffer failed later, for its
\* low confidence.
C30_WitnessLaterFailure ==
  /\ Answered
  /\ PreprocessFailed
  /\ Resp.message = "OCR confidence too low"

====
